---- MODULE Spec2Model ----
(***************************************************************************)
(* Territory-control engine of red-blue-territory-control:                 *)
(*   GameState   (src/game_logic.py)   the grid, the counters, one round   *)
(*   GameManager (src/game_manager.py) the asyncio layer around it         *)
(* Cell codes are those of the source: 0 empty, 1 red (defender),          *)
(* 2 blue (attacker).  A position is <<x, y>>; the source indexes          *)
(* grid[y, x].                                                             *)
(***************************************************************************)
EXTENDS Integers, Sequences, FiniteSets, TLC

(* ------------------------------------------------------------------ *)
(* Bounds of the model                                                 *)
(* ------------------------------------------------------------------ *)
\* GameState(width, height): the constructor's arguments (default 30 x 30)
\* for the board of the engine and of the manager.
Width == 3
Height == 3
\* add_player_point is not offered once points_placed reaches MaxPoints.
MaxPoints == 5
\* update_state_tactical is not offered on a running game once round_count
\* reaches MaxRounds.
MaxRounds == 2

VARIABLES
  width,              \* GameState.width
  height              \* GameState.height

\* The (x, y) for which grid[y, x] exists.
Pos == (0 .. width - 1) \X (0 .. height - 1)

\* Coordinates a caller may send: every cell, and one step past the far
\* edge and one before the near edge (the same value, -1, on both axes).
Xs == (0 .. Width) \cup {-1}
Ys == 0 .. Height

\* None of the source (last_grid, final_stats before they are set).
None == << >>

(* ------------------------------------------------------------------ *)
(* initialize_obstacles: the run-length decoder                        *)
(* ------------------------------------------------------------------ *)
Digits == {"0", "1", "2", "3", "4", "5", "6", "7", "8", "9"}

DigitVal(c) ==
  CASE c = "0" -> 0 [] c = "1" -> 1 [] c = "2" -> 2 [] c = "3" -> 3
    [] c = "4" -> 4 [] c = "5" -> 5 [] c = "6" -> 6 [] c = "7" -> 7
    [] c = "8" -> 8 [] c = "9" -> 9

\* int(count) for a non-empty string of digits.
RECURSIVE IntOf(_)
IntOf(count) ==
  IF count = << >> THEN 0
  ELSE 10 * IntOf(SubSeq(count, 1, Len(count) - 1)) + DigitVal(count[Len(count)])

\* Mutant of Repeat: a command with no digits before it repeats 0 times.
Repeat_ZeroDefault(count) == IntOf(count)

\* repeat = int(count) if count else 1
Repeat(count) == IF count = << >> THEN 1 ELSE IntOf(count)

InBounds(x, y) == 0 <= x /\ x < width /\ 0 <= y /\ y < height

\* The loop of initialize_obstacles from character i on, with the cursor
\* (x, y), the pending count string and the cells set to 1 so far.
RECURSIVE DecodeFrom(_, _, _, _, _, _)
DecodeFrom(text, i, x, y, count, cells) ==
  IF i > Len(text) THEN cells
  ELSE LET char == text[i]
           repeat == Repeat(count)
       IN IF char \in Digits
            THEN DecodeFrom(text, i + 1, x, y, Append(count, char), cells)
          ELSE IF char = "$"
            THEN DecodeFrom(text, i + 1, 0, y + repeat, << >>, cells)
          ELSE IF char = "b"
            THEN DecodeFrom(text, i + 1, x + repeat, y, << >>, cells)
          ELSE IF char = "o"
            THEN DecodeFrom(text, i + 1, x + repeat, y, << >>,
                   cells \cup {<<x + k, y>> : k \in
                                {j \in 0 .. repeat - 1 : InBounds(x + j, y)}})
          ELSE IF char = "!"
            THEN cells
          ELSE DecodeFrom(text, i + 1, x, y, << >>, cells)

Decode(text) == DecodeFrom(text, 1, 0, 0, << >>, {})

\* np.zeros((height, width))
EmptyGrid == [p \in Pos |-> 0]

\* The grid initialize_obstacles leaves on a fresh GameState.
ObstacleGrid(text) == [p \in Pos |-> IF p \in Decode(text) THEN 1 ELSE 0]

\* np.sum(grid == v)
CountCells(g, v) == Cardinality({p \in Pos : g[p] = v})

\* The pattern texts the engine is initialized with in the model.
Patterns ==
  { <<"o", "!">>,
    <<"2", "o", "2", "$", "2", "b", "o", "!", "o">>,
    <<"b", "!">> }

(* ------------------------------------------------------------------ *)
(* update_state_tactical: the helpers of one round                     *)
(* ------------------------------------------------------------------ *)
Abs(n) == IF n < 0 THEN -n ELSE n

\* np.sign
Sign(n) == IF n > 0 THEN 1 ELSE IF n < 0 THEN -1 ELSE 0

\* abs(x - rx) + abs(y - ry)
Dist(p, q) == Abs(p[1] - q[1]) + Abs(p[2] - q[2])

\* set((x, y) for y ... for x ... if grid[y, x] == 1)
RedPositions(g) == {p \in Pos : g[p] = 1}

\* set((x, y) for y ... for x ... if grid[y, x] == 2)
BluePositions(g) == {p \in Pos : g[p] = 2}

\* The order in which a Python set is enumerated is fixed by the hash table,
\* not by the program: the round takes it as an input.  RowMajor is the
\* order in which the generator inserted the positions.
Rank(p) == p[2] * width + p[1]

RowMajor(S) ==
  [i \in 1 .. Cardinality(S) |->
     CHOOSE p \in S : Cardinality({q \in S : Rank(q) < Rank(p)}) = i - 1]

Reversed(s) == [i \in 1 .. Len(s) |-> s[Len(s) + 1 - i]]

\* Every enumeration order of a set (used for red_positions).
AllOrders(S) ==
  {s \in [1 .. Cardinality(S) -> S] :
     \A i, j \in 1 .. Cardinality(S) : i # j => s[i] # s[j]}

\* Two enumeration orders of a set (used for blue_positions).
TwoOrders(S) == {RowMajor(S), Reversed(RowMajor(S))}

\* The inner loop over red_positions: the first position at the least
\* distance (dist < min_dist keeps the first one met); None without reds.
NearestRed(p, red_order) ==
  IF red_order = << >> THEN None
  ELSE LET best == CHOOSE i \in 1 .. Len(red_order) :
                     /\ \A j \in 1 .. Len(red_order) :
                          Dist(p, red_order[i]) <= Dist(p, red_order[j])
                     /\ \A j \in 1 .. i - 1 :
                          Dist(p, red_order[j]) > Dist(p, red_order[i])
       IN red_order[best]

\* Mutant of PossibleMoves: the vertical step is tried before the
\* horizontal one.
PossibleMoves_VerticalFirst(dx, dy) ==
  << <<dx, dy>>, <<0, dy>>, <<dx, 0>>, <<-dy, dx>>, <<dy, -dx>> >>

\* possible_moves for direction (dx, dy)
PossibleMoves(dx, dy) ==
  << <<dx, dy>>, <<dx, 0>>, <<0, dy>>, <<-dy, dx>>, <<dy, -dx>> >>

\* The destination the blue at p proposes on new_grid, or None: the first
\* possible move that is in bounds and lands on a 0 cell.
FindMove(p, red_order, new_grid) ==
  LET nearest_red == NearestRed(p, red_order)
  IN IF nearest_red = None THEN None
     ELSE LET dx == Sign(nearest_red[1] - p[1])
              dy == Sign(nearest_red[2] - p[2])
              pm == PossibleMoves(dx, dy)
              Dest(i) == <<p[1] + pm[i][1], p[2] + pm[i][2]>>
              Valid(i) == /\ InBounds(Dest(i)[1], Dest(i)[2])
                          /\ new_grid[Dest(i)] = 0
          IN IF \E i \in 1 .. 5 : Valid(i)
               THEN Dest(CHOOSE i \in 1 .. 5 :
                           Valid(i) /\ \A j \in 1 .. i - 1 : ~Valid(j))
               ELSE None

\* Mutant of CollectMoves: every blue position is enumerated twice.
RECURSIVE CollectMoves_Twice(_, _, _, _)
CollectMoves_Twice(new_grid, blue_order, red_order, i) ==
  IF i > Len(blue_order) THEN << >>
  ELSE LET dest == FindMove(blue_order[i], red_order, new_grid)
       IN (IF dest = None THEN << >>
           ELSE << <<blue_order[i], dest>>, <<blue_order[i], dest>> >>)
            \o CollectMoves_Twice(new_grid, blue_order, red_order, i + 1)

\* moves_to_apply: the pairs <<source, destination>> in the order the blues
\* are enumerated.
RECURSIVE CollectMoves(_, _, _, _)
CollectMoves(new_grid, blue_order, red_order, i) ==
  IF i > Len(blue_order) THEN << >>
  ELSE LET dest == FindMove(blue_order[i], red_order, new_grid)
       IN (IF dest = None THEN << >> ELSE << <<blue_order[i], dest>> >>)
            \o CollectMoves(new_grid, blue_order, red_order, i + 1)

\* Mutant of ApplyMove: a move onto a cell that is no longer empty is
\* dropped.
ApplyMove_FirstWins(new_grid, move) ==
  IF new_grid[move[1]] = 2 /\ new_grid[move[2]] = 0
    THEN [new_grid EXCEPT ![move[1]] = 0, ![move[2]] = 2]
    ELSE new_grid

\* Mutant of ApplyMove: the source cell is not cleared.
ApplyMove_KeepsSource(new_grid, move) ==
  IF new_grid[move[1]] = 2
    THEN [new_grid EXCEPT ![move[2]] = 2]
    ELSE new_grid

\* One move applied: only the source is checked.
ApplyMove(new_grid, move) ==
  IF new_grid[move[1]] = 2
    THEN [new_grid EXCEPT ![move[1]] = 0, ![move[2]] = 2]
    ELSE new_grid

\* "Apply moves": in the order collected.
RECURSIVE ApplyMoves(_, _, _)
ApplyMoves(new_grid, moves, i) ==
  IF i > Len(moves) THEN new_grid
  ELSE ApplyMoves(ApplyMove(new_grid, moves[i]), moves, i + 1)

\* _calculate_blue_strength times 6: a blue at distance 0, 1, 2 adds
\* 1, 1/2, 1/3.  The float sum is >= 3 exactly when this integer is >= 18:
\* the sums that are exactly 3 (3*n1 + 2*n2 = 12) round to 3.0 or above in
\* every order of addition, and every other sum is at least 1/6 away from 3.
calculate_blue_strength(p, blue_positions) ==
  6 * Cardinality({b \in blue_positions : Dist(p, b) = 0})
  + 3 * Cardinality({b \in blue_positions : Dist(p, b) = 1})
  + 2 * Cardinality({b \in blue_positions : Dist(p, b) = 2})

\* Mutant of Attacks: a strength of exactly 3 is not enough.
Attacks_Strict(p, blue_positions) ==
  calculate_blue_strength(p, blue_positions) > 18

\* Mutant of Attacks: a strength of 2.5 is enough.
Attacks_FromTwoAndHalf(p, blue_positions) ==
  calculate_blue_strength(p, blue_positions) >= 15

\* blue_strength >= 3
Attacks(p, blue_positions) == calculate_blue_strength(p, blue_positions) >= 18

\* Mutant of RedToRemove: the range is Manhattan distance 2.
RedToRemove_Manhattan(g, blue_positions) ==
  {n \in Pos :
     /\ g[n] = 1
     /\ \E b \in blue_positions :
          /\ Attacks(b, blue_positions)
          /\ Dist(n, b) <= 2}

\* red_to_remove: the 1 cells of g within offsets -2 .. 2 of an attacking blue.
RedToRemove(g, blue_positions) ==
  {n \in Pos :
     /\ g[n] = 1
     /\ \E b \in blue_positions :
          /\ Attacks(b, blue_positions)
          /\ Abs(n[1] - b[1]) <= 2
          /\ Abs(n[2] - b[2]) <= 2}

\* "Remove defeated red positions" on new_grid
RemoveReds(new_grid, red_to_remove) ==
  [p \in Pos |-> IF p \in red_to_remove THEN 0 ELSE new_grid[p]]

\* Mutant of FinalStats: the defender count is read from the live grid,
\* which has no red cell left when the game ends.
FinalStats_LiveCount(rounds, points, reds) ==
  [total_rounds |-> rounds, points_placed |-> points,
   initial_red_count |-> 0]

\* Mutant of FinalStats: final_stats is left unset.
FinalStats_Missing(rounds, points, reds) == None

\* final_stats as update_state_tactical sets it: the fields copied from the
\* counters (the float ratings of calculate_victory_ranking are functions
\* of these three numbers).
FinalStats(rounds, points, reds) ==
  [total_rounds |-> rounds, points_placed |-> points,
   initial_red_count |-> reds]

(* ------------------------------------------------------------------ *)
(* State                                                               *)
(* ------------------------------------------------------------------ *)
VARIABLES
  grid,               \* GameState.grid
  last_grid,          \* GameState.last_grid
  round_count,        \* GameState.round_count
  points_placed,      \* GameState.points_placed
  game_over,          \* GameState.game_over
  final_stats,        \* GameState.final_stats
  initial_red_count,  \* GameState.initial_red_count
  last_call,          \* the latest engine call and what it returned
  instance,           \* how many times GameManager.game_state was replaced
  current_pattern,    \* GameManager.current_pattern: the text last decoded
  state_lock,         \* GameManager.state_lock: "free" or the task holding it
  timer,              \* GameManager.timer
  loop_pc,            \* where the update_game_loop task stands
  loop_i,             \* the i of its countdown
  player_pc,          \* where each websocket task stands in add_player_point
  pending,            \* the (x, y) of a player waiting for state_lock
  message,            \* the latest grid_update message broadcast_state built
  snapshot,           \* the array get_state returned to a caller that kept it
  engine_lock,        \* GameState.lock: "free" or the method holding it
  engine_pc,          \* the engine method a caller is inside, or "idle"
  connections,        \* GameManager.connections: the websockets it holds
  game_loop,          \* GameManager.game_loop: the id of the task it names, 0 for None
  tasks,              \* the update_game_loop tasks created, and their state
  conn_pc             \* where each websocket's endpoint task stands

engine == <<width, height, grid, last_grid, round_count, points_placed,
            game_over, final_stats, initial_red_count>>

manager == <<instance, current_pattern, state_lock, timer, loop_pc, loop_i, player_pc,
             pending, message>>

locking == <<engine_lock, engine_pc>>

lifecycle == <<connections, game_loop, tasks, conn_pc>>

vars == <<width, height, grid, last_grid, round_count, points_placed, game_over,
          final_stats, initial_red_count, last_call, instance,
          current_pattern, state_lock,
          timer, loop_pc, loop_i, player_pc, pending, message, snapshot,
          engine_lock, engine_pc, connections, game_loop, tasks, conn_pc>>

\* The websocket tasks of the model.
Players == {"p1"}

\* for i in range(5, -1, -1), and self.timer = 5
TimerStart == 5

Call(op, ret) == [op |-> op, ret |-> ret]

(* ------------------------------------------------------------------ *)
(* GameState: the engine, one call at a time                           *)
(* ------------------------------------------------------------------ *)
\* GameState() followed by initialize_obstacles(text)
InitEngine(text) ==
  /\ width = Width
  /\ height = Height
  /\ grid = ObstacleGrid(text)
  /\ last_grid = None
  /\ round_count = 0
  /\ points_placed = 0
  /\ game_over = FALSE
  /\ final_stats = None
  /\ initial_red_count = CountCells(ObstacleGrid(text), 1)

\* The websockets of the model, and the ids of the loop tasks it may create.
Sockets == {"p1", "p2"}

MaxTasks == 3

TaskIds == 1 .. MaxTasks

\* GameState(): self.lock = Lock(), and no method is being called.
InitLocking ==
  /\ engine_lock = "free"
  /\ engine_pc = "idle"

\* A task or an endpoint at a place of its code; on is the task it awaits
\* there, 0 if it awaits none.
At(place) == [at |-> place, on |-> 0]

\* GameManager(): self.connections = {}, self.game_loop = None
InitLifecycle ==
  /\ connections = {}
  /\ game_loop = 0
  /\ tasks = [t \in TaskIds |-> At("none")]
  /\ conn_pc = [w \in Sockets |-> At("closed")]

\* The manager once its players have connected: connect() has started the
\* loop task and every player's endpoint is in its receive loop.
Connected ==
  /\ connections = Players
  /\ game_loop = 1
  /\ tasks = [t \in TaskIds |-> IF t = 1 THEN At("running") ELSE At("none")]
  /\ conn_pc = [w \in Sockets |-> IF w \in Players THEN At("open")
                                                   ELSE At("closed")]

\* GameManager(): no task has run yet.
InitManager ==
  /\ instance = 0
  /\ state_lock = "free"
  /\ timer = TimerStart
  /\ loop_pc = "countdown"
  /\ loop_i = TimerStart
  /\ player_pc = [p \in Players |-> "idle"]
  /\ pending = [p \in Players |-> None]
  /\ message = None
  /\ snapshot = None

Init ==
  /\ \E text \in Patterns :
       /\ InitEngine(text)
       /\ current_pattern = text
  /\ last_call = Call("initialize_obstacles", "None")
  /\ InitManager
  /\ InitLocking
  /\ InitLifecycle

\* Mutant of AddRefused: the occupied-cell refusal is missing.
AddRefused_NoOccupied(x, y) ==
  IF game_over THEN TRUE ELSE ~InBounds(x, y)

\* add_player_point(x, y): the three refusals.
AddRefused(x, y) ==
  IF game_over THEN TRUE
  ELSE IF ~InBounds(x, y) THEN TRUE
  ELSE grid[<<x, y>>] # 0

\* Mutant of PlacedGrid: the cell is written with the red code.
PlacedGrid_Red(g, x, y) == [g EXCEPT ![<<x, y>>] = 1]

\* self.grid[y, x] = 2
PlacedGrid(g, x, y) == [g EXCEPT ![<<x, y>>] = 2]

\* Mutant of Snapshot: get_state hands out the engine's own array.
Snapshot_Live(g) == [cells |-> g, shares |-> TRUE, written |-> FALSE]

\* state = self.grid.copy(): a new array with the cells of the grid; it is
\* not the engine's array, and the caller has not written to it.
Snapshot(g) == [cells |-> g, shares |-> FALSE, written |-> FALSE]

\* self.grid[y, x] = 2 writes into the engine's array: an array that is
\* that same object shows the write.
AfterWrite(snap, g) ==
  IF snap # None /\ snap.shares THEN [snap EXCEPT !.cells = g] ELSE snap

\* self.grid = new_grid makes another array the engine's: an array handed
\* out before is the engine's no longer.
AfterRebind(snap) ==
  IF snap # None /\ snap.shares THEN [snap EXCEPT !.shares = FALSE] ELSE snap

\* add_player_point returning False
Refuse ==
  /\ last_call' = Call("add_player_point", "False")
  /\ UNCHANGED <<engine, snapshot>>

\* add_player_point placing the point and returning True
PlacePoint(x, y) ==
  /\ grid' = PlacedGrid(grid, x, y)
  /\ points_placed' = points_placed + 1
  /\ last_call' = Call("add_player_point", "True")
  /\ UNCHANGED <<width, height, last_grid, round_count, game_over,
                 final_stats, initial_red_count>>
  /\ snapshot' = AfterWrite(snapshot, grid')

\* The same, offered while points_placed is below the bound.
Place(x, y) ==
  /\ points_placed < MaxPoints
  /\ PlacePoint(x, y)

add_player_point(x, y) ==
  \/ /\ AddRefused(x, y)
     /\ Refuse
  \/ /\ ~AddRefused(x, y)
     /\ Place(x, y)

\* get_changes_count() on an engine whose grid is g and last_grid is lg:
\* 0 if last_grid is None, else int(np.sum(self.grid != self.last_grid))
get_changes_count(g, lg) ==
  IF lg = None THEN 0
  ELSE Cardinality({p \in Pos : g[p] # lg[p]})

\* get_state(): a copy of the grid is returned, nothing is changed.
get_state ==
  /\ last_call' = Call("get_state", "grid")
  /\ UNCHANGED <<engine, snapshot>>

\* The grid a round leaves, reading the pre-round grid g throughout.
RoundGrid(g, red_order, blue_order) ==
  LET moves == CollectMoves(g, blue_order, red_order, 1)
      moved == ApplyMoves(g, moves, 1)
  IN RemoveReds(moved, RedToRemove(g, BluePositions(g)))

\* Mutant of RedsLeft: the defeated positions stay in red_positions.
RedsLeft_NotRemoved(g) == RedPositions(g)

\* red_positions after "Remove defeated red positions"
RedsLeft(g) == RedPositions(g) \ RedToRemove(g, BluePositions(g))

\* Mutant of WinCheck: the game never ends.
WinCheck_Never(reds_left) == FALSE

\* The win check at the end of a round
WinCheck(reds_left) == reds_left = {}

\* Mutant of AlreadyOver: the early return is missing.
AlreadyOver_Never == FALSE

\* if self.game_over: return
AlreadyOver == game_over

\* update_state_tactical returning at once
EarlyReturn ==
  /\ last_call' = Call("update_state_tactical", "None")
  /\ UNCHANGED <<engine, snapshot>>

\* update_state_tactical past the early return: one whole round.
Round ==
  /\ \E red_order \in AllOrders(RedPositions(grid)),
        blue_order \in TwoOrders(BluePositions(grid)) :
       grid' = RoundGrid(grid, red_order, blue_order)
  /\ last_grid' = grid
  /\ round_count' = round_count + 1
  /\ IF WinCheck(RedsLeft(grid))
       THEN /\ game_over' = TRUE
            /\ final_stats' = FinalStats(round_count + 1, points_placed,
                                         initial_red_count)
       ELSE UNCHANGED <<game_over, final_stats>>
  /\ last_call' = Call("update_state_tactical", "None")
  /\ UNCHANGED <<width, height, points_placed, initial_red_count>>
  /\ snapshot' = AfterRebind(snapshot)

\* The same, offered while round_count is below the bound.
RunRound ==
  /\ round_count < MaxRounds
  /\ Round

update_state_tactical ==
  \/ /\ AlreadyOver
     /\ EarlyReturn
  \/ /\ ~AlreadyOver
     /\ RunRound

\* The engine called by one caller at a time.
Next ==
  \/ \E x \in Xs, y \in Ys : add_player_point(x, y) /\ UNCHANGED <<manager, locking, lifecycle>>
  \/ get_state /\ UNCHANGED <<manager, locking, lifecycle>>
  \/ update_state_tactical /\ UNCHANGED <<manager, locking, lifecycle>>

Spec == Init /\ [][Next]_vars

(* ------------------------------------------------------------------ *)
(* GameManager: the websocket tasks and the game loop on one event     *)
(* loop. A step runs one task from one await to the next; the engine   *)
(* calls are synchronous, so a step holds each of them whole.          *)
(* ------------------------------------------------------------------ *)
MaxResets == 1

\* The patterns the manager draws its boards from.
MgrPatterns == { <<"o", "!">> }

\* The (x, y) the websocket clients send.
PlayerInputs == { <<1, 1>>, <<0, 1>>, <<2, 1>>, <<1, 0>>, <<1, 2>>, <<0, 0>>,
                  <<3, 1>> }

\* The grid_update message of broadcast_state: its grid, current_round,
\* points_placed and game_over entries
MessageOf(g, rounds, points, over) ==
  [grid |-> g, current_round |-> rounds, points_placed |-> points,
   game_over |-> over]

InitMgr ==
  /\ \E text \in MgrPatterns :
       /\ InitEngine(text)
       /\ current_pattern = text
  /\ last_call = Call("initialize_obstacles", "None")
  /\ InitManager
  /\ InitLocking
  /\ Connected

\* Mutant of LockFree: the lock never keeps a task out.
LockFree_Ignored == TRUE

\* state_lock is not held
LockFree == state_lock = "free"

\* async with self.state_lock: if self.game_state.add_player_point(x, y):
\*     await self.broadcast_state()
\* entered by player p with the lock acquired.
PlayerEnters(p, x, y) ==
  IF AddRefused(x, y)
    THEN /\ Refuse
         /\ player_pc' = [player_pc EXCEPT ![p] = "idle"]
         /\ UNCHANGED <<state_lock, message>>
    ELSE /\ Place(x, y)
         /\ state_lock' = p
         /\ player_pc' = [player_pc EXCEPT ![p] = "broadcasting"]
         /\ message' = MessageOf(grid', round_count', points_placed',
                                 game_over')

\* A websocket task calls GameManager.add_player_point(x, y).
player_call(p) ==
  /\ player_pc[p] = "idle"
  /\ \E xy \in PlayerInputs :
       IF LockFree
         THEN /\ PlayerEnters(p, xy[1], xy[2])
              /\ UNCHANGED <<instance, current_pattern, timer, loop_pc, loop_i, pending>>
         ELSE /\ player_pc' = [player_pc EXCEPT ![p] = "waiting"]
              /\ pending' = [pending EXCEPT ![p] = xy]
              /\ UNCHANGED <<engine, last_call, snapshot, instance, current_pattern, state_lock, timer,
                             loop_pc, loop_i, message>>

\* The waiting task is given the lock.
player_acquire(p) ==
  /\ player_pc[p] = "waiting"
  /\ LockFree
  /\ PlayerEnters(p, pending[p][1], pending[p][2])
  /\ pending' = [pending EXCEPT ![p] = None]
  /\ UNCHANGED <<instance, current_pattern, timer, loop_pc, loop_i>>

\* broadcast_state returns and the async with block is left.
player_done(p) ==
  /\ player_pc[p] = "broadcasting"
  /\ state_lock' = "free"
  /\ player_pc' = [player_pc EXCEPT ![p] = "idle"]
  /\ UNCHANGED <<engine, last_call, snapshot, instance, current_pattern, timer, loop_pc, loop_i,
                 pending, message>>

\* Mutant of NewGameState: the replacement keeps the old run's counters.
NewGameState_Stale(text) ==
  [grid |-> ObstacleGrid(text), last_grid |-> last_grid,
   round_count |-> round_count, points_placed |-> points_placed,
   game_over |-> FALSE, final_stats |-> final_stats,
   initial_red_count |-> CountCells(ObstacleGrid(text), 1)]

\* GameState() followed by initialize_obstacles(text), as a value
NewGameState(text) ==
  [grid |-> ObstacleGrid(text), last_grid |-> None, round_count |-> 0,
   points_placed |-> 0, game_over |-> FALSE, final_stats |-> None,
   initial_red_count |-> CountCells(ObstacleGrid(text), 1)]

\* Mutant of LoopGoes: the task moves on with state_lock as it was.
LoopGoes_KeepsLock(pc, i, lock) ==
  /\ loop_pc' = pc
  /\ loop_i' = i
  /\ UNCHANGED <<engine, last_call, snapshot, instance, current_pattern, state_lock, timer, message>>

\* The loop task moves on without touching the game.
LoopGoes(pc, i, lock) ==
  /\ loop_pc' = pc
  /\ loop_i' = i
  /\ state_lock' = lock
  /\ UNCHANGED <<engine, last_call, snapshot, instance, current_pattern, timer, message>>

\* Mutant of perform_reset: the task goes on and the game is not replaced.
perform_reset_Skipped(pc, i, lock) == LoopGoes(pc, i, lock)

\* _perform_reset, after which the loop task stands at pc.
perform_reset(pc, i, lock) ==
  /\ instance < MaxResets
  /\ \E text \in MgrPatterns :
       LET fresh == NewGameState(text)
       IN /\ grid' = fresh.grid
          /\ last_grid' = fresh.last_grid
          /\ round_count' = fresh.round_count
          /\ points_placed' = fresh.points_placed
          /\ game_over' = fresh.game_over
          /\ final_stats' = fresh.final_stats
          /\ initial_red_count' = fresh.initial_red_count
          /\ current_pattern' = text
  /\ UNCHANGED <<width, height, snapshot>>
  /\ last_call' = Call("initialize_obstacles", "None")
  /\ instance' = instance + 1
  /\ timer' = TimerStart
  /\ loop_pc' = pc
  /\ loop_i' = i
  /\ state_lock' = lock
  /\ UNCHANGED message

\* reset_game with the lock acquired: reset, then await _broadcast_reset.
reset_game_enters == perform_reset("reset_broadcast", loop_i, "loop")

\* force_reset: reset and release if the lock can be had, else wait.
force_reset(free) ==
  IF free
    THEN perform_reset("countdown", TimerStart, "free")
    ELSE LoopGoes("force_wait", loop_i, state_lock)

\* update_game with the lock acquired: the round, the timer, the message,
\* then await the sends.
update_game_enters ==
  /\ RunRound
  /\ timer' = TimerStart
  /\ message' = MessageOf(grid', round_count', points_placed', game_over')
  /\ state_lock' = "loop"
  /\ loop_pc' = "upd_broadcast"
  /\ UNCHANGED <<instance, current_pattern, loop_i>>

\* for i in range(5, -1, -1): await self.update_timer(i); sleep(1) if i > 0
loop_countdown ==
  /\ loop_pc = "countdown"
  /\ timer' = loop_i
  /\ IF loop_i > 0
       THEN /\ loop_i' = loop_i - 1
            /\ UNCHANGED loop_pc
       ELSE /\ loop_pc' = "tick"
            /\ UNCHANGED loop_i
  /\ UNCHANGED <<engine, last_call, snapshot, instance, current_pattern, state_lock, player_pc, pending,
                 message>>

\* When timer hits 0: reset_game if the game is over, else update_game.
loop_tick ==
  /\ loop_pc = "tick"
  /\ IF game_over
       THEN IF LockFree
              THEN reset_game_enters
              ELSE LoopGoes("reset_wait", loop_i, state_lock)
       ELSE IF LockFree
              THEN update_game_enters
              ELSE LoopGoes("upd_wait", loop_i, state_lock)
  /\ UNCHANGED <<player_pc, pending>>

\* The loop task, waiting for state_lock, is given it.
loop_acquire ==
  /\ loop_pc \in {"upd_wait", "reset_wait", "force_wait"}
  /\ LockFree
  /\ CASE loop_pc = "upd_wait" -> update_game_enters
       [] loop_pc = "reset_wait" -> reset_game_enters
       [] loop_pc = "force_wait" -> force_reset(TRUE)
  /\ UNCHANGED <<player_pc, pending>>

\* The sends of a broadcast made under the lock complete.
loop_broadcast_done ==
  /\ loop_pc \in {"upd_broadcast", "reset_broadcast"}
  /\ IF loop_pc = "upd_broadcast" /\ game_over
       THEN /\ loop_pc' = "final_broadcast"
            /\ state_lock' = "free"
            /\ message' = MessageOf(grid, round_count, points_placed,
                                    game_over)
            /\ UNCHANGED <<engine, last_call, snapshot, instance, current_pattern, timer, loop_i>>
       ELSE LoopGoes("countdown", TimerStart, "free")
  /\ UNCHANGED <<player_pc, pending>>

\* An asyncio.timeout expires where the loop task is suspended.
loop_timeout ==
  /\ loop_pc \in {"upd_wait", "upd_broadcast", "final_broadcast",
                  "reset_wait", "reset_broadcast", "force_wait"}
  /\ CASE loop_pc \in {"upd_wait", "reset_wait"} ->
            IF game_over
              THEN force_reset(LockFree)
              ELSE LoopGoes("countdown", TimerStart, state_lock)
       [] loop_pc \in {"upd_broadcast", "reset_broadcast"} ->
            IF game_over
              THEN force_reset(TRUE)
              ELSE LoopGoes("countdown", TimerStart, "free")
       [] loop_pc = "final_broadcast" ->
            IF game_over
              THEN force_reset(LockFree)
              ELSE LoopGoes("countdown", TimerStart, state_lock)
       [] loop_pc = "force_wait" ->
            LoopGoes("countdown", TimerStart, state_lock)
  /\ UNCHANGED <<player_pc, pending>>

\* GET /grid: get_state() is called from a task that takes no state_lock.
get_grid ==
  /\ get_state
  /\ UNCHANGED <<manager, locking, lifecycle>>

NextMgr ==
  \/ get_grid
  \/ \E p \in Players : player_call(p) /\ UNCHANGED <<locking, lifecycle>>
  \/ \E p \in Players : player_acquire(p) /\ UNCHANGED <<locking, lifecycle>>
  \/ \E p \in Players : player_done(p) /\ UNCHANGED <<locking, lifecycle>>
  \/ loop_countdown /\ UNCHANGED <<locking, lifecycle>>
  \/ loop_tick /\ UNCHANGED <<locking, lifecycle>>
  \/ loop_acquire /\ UNCHANGED <<locking, lifecycle>>
  \/ loop_broadcast_done /\ UNCHANGED <<locking, lifecycle>>
  \/ loop_timeout /\ UNCHANGED <<locking, lifecycle>>

SpecMgr == InitMgr /\ [][NextMgr]_vars

\* The loop task leaves an await it is suspended at: the sends of a
\* broadcast complete, or the asyncio.timeout around it expires.
LoopResumes ==
  \/ loop_broadcast_done /\ UNCHANGED <<locking, lifecycle>>
  \/ loop_timeout /\ UNCHANGED <<locking, lifecycle>>

\* The same tasks on an event loop that keeps running: the timeouts of the
\* loop task expire, so it does not stay suspended for ever.
SpecMgrLive == InitMgr /\ [][NextMgr]_vars /\ WF_vars(LoopResumes)

(* ------------------------------------------------------------------ *)
(* The decoder on its own: a GameState is constructed and               *)
(* initialize_obstacles is called on it once, with any short text.      *)
(* ------------------------------------------------------------------ *)
MaxLen == 3

\* The characters of the pattern language, with three of the digits.
Alphabet == {"0", "1", "2", "b", "o", "$", "!"}

\* A character that is none of them.
Foreign == {"x"}

Texts == UNION {[1 .. n -> Alphabet \cup Foreign] : n \in 0 .. MaxLen}

\* GameState(): the fields as __init__ leaves them.
InitDec ==
  /\ width \in 1 .. Width
  /\ height \in 1 .. Height
  /\ grid = EmptyGrid
  /\ last_grid = None
  /\ round_count = 0
  /\ points_placed = 0
  /\ game_over = FALSE
  /\ final_stats = None
  /\ initial_red_count = 0
  /\ last_call = Call("__init__", "None")
  /\ current_pattern = None
  /\ InitManager
  /\ InitLocking
  /\ InitLifecycle

\* initialize_obstacles(text) on the GameState just constructed.
initialize_obstacles(text) ==
  /\ last_call.op = "__init__"
  /\ grid' = ObstacleGrid(text)
  /\ initial_red_count' = CountCells(ObstacleGrid(text), 1)
  /\ current_pattern' = text
  /\ last_call' = Call("initialize_obstacles", "None")
  /\ UNCHANGED <<width, height, last_grid, round_count, points_placed,
                 game_over, final_stats, snapshot, instance, state_lock, timer, loop_pc, loop_i,
                 player_pc, pending, message, locking, lifecycle>>

NextDec == \E text \in Texts : initialize_obstacles(text)

SpecDec == InitDec /\ [][NextDec]_vars

(* ------------------------------------------------------------------ *)
(* A run on a wider board: a row of three red cells, points placed     *)
(* around it, then rounds with no further placement.                   *)
(* ------------------------------------------------------------------ *)
RunWidth == 5
RunHeight == 3
MaxRunPoints == 6
MaxRunRounds == 3

RunPattern == <<"3", "o", "!">>

\* max(|dx|, |dy|) = 1: the eight cells around a cell
Adjacent8(p, q) ==
  /\ p # q
  /\ Abs(p[1] - q[1]) <= 1
  /\ Abs(p[2] - q[2]) <= 1

\* The cells of S reachable from those of R by steps between adjacent cells.
RECURSIVE Reach(_, _)
Reach(R, S) ==
  LET more == {q \in S \ R : \E p \in R : Adjacent8(p, q)}
  IN IF more = {} THEN R ELSE Reach(R \cup more, S)

\* The maximal 8-connected regions of the cells of g holding v.
Regions(g, v) ==
  LET S == {p \in Pos : g[p] = v}
  IN {Reach({p}, S) : p \in S}

\* Every red cluster has a blue next to it, and every blue next to a red
\* cell has strength >= 3.
AttackersReady(g) ==
  /\ Regions(g, 1) # {}
  /\ \A c \in Regions(g, 1) :
       \E b \in BluePositions(g), r \in c : Adjacent8(b, r)
  /\ \A b \in BluePositions(g) :
       (\E r \in RedPositions(g) : Adjacent8(b, r))
         => calculate_blue_strength(b, BluePositions(g)) >= 18

InitRun ==
  /\ width = RunWidth
  /\ height = RunHeight
  /\ grid = ObstacleGrid(RunPattern)
  /\ last_grid = None
  /\ round_count = 0
  /\ points_placed = 0
  /\ game_over = FALSE
  /\ final_stats = None
  /\ initial_red_count = CountCells(ObstacleGrid(RunPattern), 1)
  /\ last_call = Call("initialize_obstacles", "None")
  /\ current_pattern = RunPattern
  /\ InitManager
  /\ InitLocking
  /\ InitLifecycle

\* add_player_point(x, y) before the first round
run_place(x, y) ==
  /\ round_count = 0
  /\ points_placed < MaxRunPoints
  /\ IF AddRefused(x, y) THEN Refuse ELSE PlacePoint(x, y)
  /\ UNCHANGED <<manager, locking, lifecycle>>

\* update_state_tactical, first called once the attackers are ready
run_round ==
  /\ round_count = 0 => AttackersReady(grid)
  /\ round_count < MaxRunRounds
  /\ IF AlreadyOver THEN EarlyReturn ELSE Round
  /\ UNCHANGED <<manager, locking, lifecycle>>

NextRun ==
  \/ \E p \in Pos : run_place(p[1], p[2])
  \/ run_round

SpecRun == InitRun /\ [][NextRun]_vars

(* ------------------------------------------------------------------ *)
(* A caller that keeps the array get_state returned, and may write     *)
(* into it, while the engine goes on.                                  *)
(* ------------------------------------------------------------------ *)
\* The pattern of this board and the cells its caller places points on.
SnapPattern == <<"o", "!">>

SnapInputs == { <<1, 0>>, <<1, 1>>, <<0, 1>> }

InitSnap ==
  /\ InitEngine(SnapPattern)
  /\ current_pattern = SnapPattern
  /\ last_call = Call("initialize_obstacles", "None")
  /\ InitManager
  /\ InitLocking
  /\ InitLifecycle

\* get_state(), the caller keeping what it returns
snap_get_state ==
  /\ snapshot' = Snapshot(grid)
  /\ last_call' = Call("get_state", "grid")
  /\ UNCHANGED <<engine, manager, locking, lifecycle>>

\* The caller assigns v to one cell of the array it holds; if that array
\* is the engine's own, the engine's grid is written.
snap_write(p, v) ==
  /\ snapshot # None
  /\ ~snapshot.written
  /\ snapshot.cells[p] # v
  /\ snapshot' = [snapshot EXCEPT !.cells[p] = v, !.written = TRUE]
  /\ grid' = IF snapshot.shares THEN [grid EXCEPT ![p] = v] ELSE grid
  /\ UNCHANGED <<width, height, last_grid, round_count, points_placed,
                 game_over, final_stats, initial_red_count, last_call,
                 manager, locking, lifecycle>>

NextSnap ==
  \/ snap_get_state
  \/ \E p \in Pos, v \in 0 .. 2 : snap_write(p, v)
  \/ \E xy \in SnapInputs : add_player_point(xy[1], xy[2]) /\ UNCHANGED <<manager, locking, lifecycle>>
  \/ update_state_tactical /\ UNCHANGED <<manager, locking, lifecycle>>

SpecSnap == InitSnap /\ [][NextSnap]_vars

(* ------------------------------------------------------------------ *)
(* GameManager._count_clusters on its own: any grid of the three cell  *)
(* codes, any cell type.                                               *)
(* ------------------------------------------------------------------ *)
\* Mutant of Offsets: only the four cells sharing a side.
Offsets_Rook == << <<0, -1>>, <<-1, 0>>, <<1, 0>>, <<0, 1>> >>

\* for dy in [-1, 0, 1]: for dx in [-1, 0, 1]: skipping (0, 0); as <<dx, dy>>
Offsets ==
  << <<-1, -1>>, <<0, -1>>, <<1, -1>>, <<-1, 0>>, <<1, 0>>,
     <<-1, 1>>, <<0, 1>>, <<1, 1>> >>

\* explore_cluster(y, x): the visited set after the call.  VisitFrom is its
\* loop over the offsets from the k-th on.
RECURSIVE explore_cluster(_, _, _, _)
RECURSIVE VisitFrom(_, _, _, _, _)
explore_cluster(state, cell_type, visited, p) ==
  IF p \in visited THEN visited
  ELSE VisitFrom(state, cell_type, visited \cup {p}, p, 1)

VisitFrom(state, cell_type, visited, p, k) ==
  IF k > Len(Offsets) THEN visited
  ELSE LET new == <<p[1] + Offsets[k][1], p[2] + Offsets[k][2]>>
       IN IF /\ InBounds(new[1], new[2])
             /\ state[new] = cell_type
             /\ new \notin visited
            THEN VisitFrom(state, cell_type,
                           explore_cluster(state, cell_type, visited, new),
                           p, k + 1)
            ELSE VisitFrom(state, cell_type, visited, p, k + 1)

\* for y in range(height): for x in range(width): from the i-th cell on,
\* with the visited set and the count so far.
RECURSIVE ScanFrom(_, _, _, _, _)
ScanFrom(state, cell_type, i, visited, clusters) ==
  IF i > Cardinality(Pos) THEN clusters
  ELSE LET p == RowMajor(Pos)[i]
       IN IF state[p] = cell_type /\ p \notin visited
            THEN ScanFrom(state, cell_type, i + 1,
                          explore_cluster(state, cell_type, visited, p),
                          clusters + 1)
            ELSE ScanFrom(state, cell_type, i + 1, visited, clusters)

count_clusters(state, cell_type) == ScanFrom(state, cell_type, 1, {}, 0)

InitClu ==
  /\ width \in 1 .. Width
  /\ height \in 1 .. Height
  /\ grid \in [Pos -> 0 .. 2]
  /\ last_grid = None
  /\ round_count = 0
  /\ points_placed = 0
  /\ game_over = FALSE
  /\ final_stats = None
  /\ initial_red_count = 0
  /\ last_call = Call("__init__", "None")
  /\ current_pattern = None
  /\ InitManager
  /\ InitLocking
  /\ InitLifecycle

\* self._count_clusters(state, cell_type) on the grid as it is
count_clusters_call(cell_type) ==
  /\ last_call' = Call("_count_clusters",
                       [cell_type |-> cell_type,
                        clusters |-> count_clusters(grid, cell_type)])
  /\ UNCHANGED <<engine, manager, locking, lifecycle, snapshot>>

NextClu == \E cell_type \in 0 .. 2 : count_clusters_call(cell_type)

SpecClu == InitClu /\ [][NextClu]_vars

(* ------------------------------------------------------------------ *)
(* GameState.calculate_victory_ranking on its own.  A float is an      *)
(* interval [lo, hi] of millionths that holds the value the code       *)
(* computes: lo = hi where the code's value is exact (the literal 1.0, *)
(* math.exp of a zero argument), and a strict enclosure of the real    *)
(* exponential, far wider than a double's rounding error, elsewhere.   *)
(* Where the interval of the weighted sum straddles a half, round()    *)
(* is a choice between the two neighbouring integers.                  *)
(* ------------------------------------------------------------------ *)
MaxInitial == 10
MaxRankPoints == 12
MaxRankRounds == 8

Unit == 1000 * 1000
Terms == 12

Exact(v) == [lo |-> v, hi |-> v]

Max(a, b) == IF a >= b THEN a ELSE b
Min(a, b) == IF a <= b THEN a ELSE b

\* The Taylor series of exp(p/q), or of exp(-p/q) when neg, for
\* 0 < p <= q, from the k-th term on: tl and tu are the (k-1)-th term
\* rounded down and up, lo and hi the partial sums.  The terms after
\* the last are below the last one.
RECURSIVE Series(_, _, _, _, _, _, _, _)
Series(neg, p, q, k, tl, tu, lo, hi) ==
  IF k > Terms THEN [lo |-> lo - tu, hi |-> hi + tu]
  ELSE LET ntl == (tl * p) \div (q * k)
           ntu == (tu * p) \div (q * k) + 1
       IN IF neg /\ k % 2 = 1
            THEN Series(neg, p, q, k + 1, ntl, ntu, lo - ntu, hi - ntl)
            ELSE Series(neg, p, q, k + 1, ntl, ntu, lo + ntl, hi + ntu)

ExpFrac(neg, p, q) ==
  IF p = 0 THEN Exact(Unit) ELSE Series(neg, p, q, 1, Unit, Unit, Unit, Unit)

\* The product of two non-negative intervals of millionths.
MulDown(x, y) ==
  (x \div 1000) * (y \div 1000)
    + ((x \div 1000) * (y % 1000) + (x % 1000) * (y \div 1000)) \div 1000

Mul(a, b) ==
  IF a = Exact(Unit) THEN b
  ELSE IF b = Exact(Unit) THEN a
  ELSE [lo |-> MulDown(Max(a.lo, 0), Max(b.lo, 0)),
        hi |-> MulDown(a.hi, b.hi) + 2]

RECURSIVE Pow(_, _)
Pow(a, n) == IF n = 0 THEN Exact(Unit) ELSE Mul(a, Pow(a, n - 1))

\* math.exp(p / q), or math.exp(-p / q) when neg, for p >= 0 and q > 0
Exp(neg, p, q) ==
  Mul(Pow(ExpFrac(neg, 1, 1), p \div q), ExpFrac(neg, p % q, q))

\* point_efficiency: exp(-(points_ratio - 1) * 2) if points_ratio > 1
PointEfficiency(points, initial) ==
  IF points > initial
    THEN Exp(TRUE, 2 * (points - initial), initial)
    ELSE Exact(Unit)

\* math.ceil(self.initial_red_count / 2)
TheoreticalMinRounds(initial) == (initial + 1) \div 2

\* speed_rating: exp(-extra_rounds / 15)
SpeedRating(rounds, initial) ==
  LET extra_rounds == rounds - TheoreticalMinRounds(initial)
  IN Exp(extra_rounds >= 0, Abs(extra_rounds), 15)

\* Mutant of ClickEfficiency: the deviation keeps its sign.
ClickEfficiency_Signed(points, rounds) ==
  LET r == Max(rounds, 1)
  IN Exp(2 * points >= 5 * r, Abs(2 * points - 5 * r), 4 * r)

\* click_efficiency: exp(-abs(points_placed / max(round_count, 1) - 2.5) / 2)
ClickEfficiency(points, rounds) ==
  LET r == Max(rounds, 1)
  IN Exp(TRUE, Abs(2 * points - 5 * r), 4 * r)

\* 0.5 * pe * 1000 + 0.3 * sr * 1000 + 0.2 * ce * 1000 in millionths of a
\* point, a factor above 4 cut to 4 (the sum is then beyond 1000 anyway),
\* and min(1000, max(0, .)) of it.
Weighted(pe, sr, ce) ==
  LET sum(f) == 500 * Min(pe[f], 4 * Unit) + 300 * Min(sr[f], 4 * Unit)
                  + 200 * Min(ce[f], 4 * Unit)
      clamp(v) == Min(1000 * Unit, Max(0, v))
  IN [lo |-> clamp(sum("lo")), hi |-> clamp(sum("hi"))]

\* round(.) of a value in the interval: the integers it can give.
Rounded(w) ==
  ((w.lo + Unit \div 2) \div Unit) .. ((w.hi + Unit \div 2) \div Unit)

\* Mutant of RankTitle: the lower bounds are exclusive.
RankTitle_Exclusive(weighted_score) ==
  IF weighted_score > 900 THEN "Master Tactician"
  ELSE IF weighted_score > 750 THEN "Elite Commander"
  ELSE IF weighted_score > 600 THEN "Skilled Strategist"
  ELSE IF weighted_score > 450 THEN "Tactical Operator"
  ELSE "Aspiring Strategist"

\* rank_info['title']
RankTitle(weighted_score) ==
  IF weighted_score >= 900 THEN "Master Tactician"
  ELSE IF weighted_score >= 750 THEN "Elite Commander"
  ELSE IF weighted_score >= 600 THEN "Skilled Strategist"
  ELSE IF weighted_score >= 450 THEN "Tactical Operator"
  ELSE "Aspiring Strategist"

\* The values calculate_victory_ranking can return.
VictoryRankings(rounds, points, initial) ==
  LET pe == PointEfficiency(points, initial)
      sr == SpeedRating(rounds, initial)
      ce == ClickEfficiency(points, rounds)
  IN { [point_efficiency |-> pe,
        speed_rating |-> sr,
        click_efficiency |-> ce,
        rank_info |-> [score |-> weighted_score,
                       title |-> RankTitle(weighted_score)]]
       : weighted_score \in Rounded(Weighted(pe, sr, ce)) }

InitRank ==
  /\ width = Width
  /\ height = Height
  /\ grid = EmptyGrid
  /\ last_grid = EmptyGrid
  /\ initial_red_count \in 1 .. MaxInitial
  /\ points_placed \in 1 .. MaxRankPoints
  /\ round_count \in 1 .. MaxRankRounds
  /\ game_over = TRUE
  /\ final_stats = FinalStats(round_count, points_placed, initial_red_count)
  /\ last_call = Call("update_state_tactical", "None")
  /\ current_pattern = None
  /\ InitManager
  /\ InitLocking
  /\ InitLifecycle

calculate_victory_ranking ==
  /\ game_over
  /\ \E victory_data \in VictoryRankings(round_count, points_placed,
                                         initial_red_count) :
       last_call' = Call("calculate_victory_ranking", victory_data)
  /\ UNCHANGED <<engine, manager, locking, lifecycle, snapshot>>

NextRank == calculate_victory_ranking

SpecRank == InitRank /\ [][NextRank]_vars

(* ------------------------------------------------------------------ *)
(* GameState.lock: each engine method in two steps, its entry and its  *)
(* return, so that the lock can be seen while the method is inside.    *)
(* ------------------------------------------------------------------ *)
\* The methods whose body is a "with self.lock:" block.
LockedMethods == {"initialize_obstacles", "add_player_point", "get_state"}

\* GameState(): the fields as __init__ leaves them, on the full board.
InitLock ==
  /\ width = Width
  /\ height = Height
  /\ grid = EmptyGrid
  /\ last_grid = None
  /\ round_count = 0
  /\ points_placed = 0
  /\ game_over = FALSE
  /\ final_stats = None
  /\ initial_red_count = 0
  /\ last_call = Call("__init__", "None")
  /\ current_pattern = None
  /\ InitManager
  /\ InitLocking
  /\ InitLifecycle

\* with self.lock: the caller enters once the lock is free, and holds it.
lock_enter(method) ==
  /\ engine_pc = "idle"
  /\ IF last_call.op = "__init__" THEN method = "initialize_obstacles"
                                  ELSE method # "initialize_obstacles"
  /\ engine_lock = "free"
  /\ engine_lock' = method
  /\ engine_pc' = method
  /\ UNCHANGED <<engine, last_call, current_pattern, snapshot>>

\* update_state_tactical is entered without self.lock being taken.
round_enter ==
  /\ engine_pc = "idle"
  /\ last_call.op # "__init__"
  /\ engine_pc' = "update_state_tactical"
  /\ UNCHANGED <<engine, engine_lock, last_call, current_pattern, snapshot>>

\* initialize_obstacles: the grid is written inside the block; the block
\* is left, and the lock with it, before initial_red_count is assigned.
obstacles_leave_block(text) ==
  /\ engine_pc = "initialize_obstacles"
  /\ grid' = ObstacleGrid(text)
  /\ current_pattern' = text
  /\ engine_lock' = "free"
  /\ engine_pc' = "initial_red_count"
  /\ UNCHANGED <<width, height, last_grid, round_count, points_placed,
                 game_over, final_stats, initial_red_count, last_call,
                 snapshot>>

\* self.initial_red_count = np.sum(self.grid == 1), and the return
obstacles_return ==
  /\ engine_pc = "initial_red_count"
  /\ initial_red_count' = CountCells(grid, 1)
  /\ last_call' = Call("initialize_obstacles", "None")
  /\ engine_pc' = "idle"
  /\ UNCHANGED <<width, height, grid, last_grid, round_count, points_placed,
                 game_over, final_stats, current_pattern, engine_lock,
                 snapshot>>

\* add_player_point: each of its returns leaves the block.
place_return(x, y) ==
  /\ engine_pc = "add_player_point"
  /\ add_player_point(x, y)
  /\ engine_lock' = "free"
  /\ engine_pc' = "idle"
  /\ UNCHANGED current_pattern

\* get_state: the return leaves the block.
state_return ==
  /\ engine_pc = "get_state"
  /\ get_state
  /\ engine_lock' = "free"
  /\ engine_pc' = "idle"
  /\ UNCHANGED current_pattern

\* update_state_tactical returns; it has no lock to release.
round_return ==
  /\ engine_pc = "update_state_tactical"
  /\ update_state_tactical
  /\ engine_pc' = "idle"
  /\ UNCHANGED <<engine_lock, current_pattern>>

Untouched == <<instance, state_lock, timer, loop_pc, loop_i, player_pc,
               pending, message, lifecycle>>

NextLock ==
  \/ \E method \in LockedMethods : lock_enter(method) /\ UNCHANGED Untouched
  \/ round_enter /\ UNCHANGED Untouched
  \/ \E text \in Patterns : obstacles_leave_block(text) /\ UNCHANGED Untouched
  \/ obstacles_return /\ UNCHANGED Untouched
  \/ \E x \in Xs, y \in Ys : place_return(x, y) /\ UNCHANGED Untouched
  \/ state_return /\ UNCHANGED Untouched
  \/ round_return /\ UNCHANGED Untouched

SpecLock == InitLock /\ [][NextLock]_vars

(* ------------------------------------------------------------------ *)
(* The life of the loop task: connect, handle_disconnect and the       *)
(* broadcasts of the loop task that find a dead websocket.             *)
(* ------------------------------------------------------------------ *)
InitConn ==
  /\ InitEngine(<<"o", "!">>)
  /\ current_pattern = <<"o", "!">>
  /\ last_call = Call("initialize_obstacles", "None")
  /\ InitManager
  /\ InitLocking
  /\ InitLifecycle

\* self.game_loop.done()
Done(t) == tasks[t].at = "done"

\* del self.connections[websocket]
Removed(w) == connections \ {w}

\* if not self.connections and self.game_loop and not self.game_loop.done()
\* inside handle_disconnect(w), for a w that is in self.connections
MustCancel(w) ==
  /\ w \in connections
  /\ Removed(w) = {}
  /\ game_loop # 0
  /\ ~Done(game_loop)

\* task.cancel(): a task suspended at an await of the loop is to receive
\* CancelledError there; a task already cancelled stays so.
Cancelled(ts, t) ==
  IF ts[t].at = "running" THEN [ts EXCEPT ![t] = At("cancelling")] ELSE ts

\* The ids no task has been created with.
FreshIds == {t \in TaskIds : tasks[t].at = "none"}

\* connect(websocket) up to its second await: accept, the entry in
\* self.connections, and the grid_config message being sent.
connect_accept(w) ==
  /\ conn_pc[w].at = "closed"
  /\ connections' = connections \cup {w}
  /\ conn_pc' = [conn_pc EXCEPT ![w] = At("config")]
  /\ UNCHANGED <<game_loop, tasks>>

\* connect(websocket) after the send: the loop task is created if this is
\* the only connection and no loop task is named or the one named is done;
\* the endpoint then goes to its receive loop.
connect_start_loop(w) ==
  /\ conn_pc[w].at = "config"
  /\ IF Cardinality(connections) = 1 /\ (game_loop = 0 \/ Done(game_loop))
       THEN /\ FreshIds # {}
            /\ LET t == CHOOSE t \in FreshIds : \A u \in FreshIds : t <= u
               IN /\ tasks' = [tasks EXCEPT ![t] = At("running")]
                  /\ game_loop' = t
       ELSE UNCHANGED <<game_loop, tasks>>
  /\ conn_pc' = [conn_pc EXCEPT ![w] = At("open")]
  /\ UNCHANGED connections

\* The endpoint's receive raises: handle_disconnect(websocket) is called
\* from the endpoint task, which awaits the loop task if it cancelled it.
endpoint_disconnect(w) ==
  /\ conn_pc[w].at = "open"
  /\ connections' = Removed(w)
  /\ IF MustCancel(w)
       THEN /\ tasks' = Cancelled(tasks, game_loop)
            /\ conn_pc' = [conn_pc EXCEPT ![w] = [at |-> "leaving",
                                                  on |-> game_loop]]
       ELSE /\ conn_pc' = [conn_pc EXCEPT ![w] = At("closed")]
            /\ UNCHANGED tasks
  /\ UNCHANGED game_loop

\* await self.game_loop returns in the endpoint task: self.game_loop = None
endpoint_resume(w) ==
  /\ conn_pc[w].at = "leaving"
  /\ Done(conn_pc[w].on)
  /\ game_loop' = 0
  /\ conn_pc' = [conn_pc EXCEPT ![w] = At("closed")]
  /\ UNCHANGED <<connections, tasks>>

\* update_game_loop receives CancelledError at its await: break
loop_cancelled(t) ==
  /\ tasks[t].at = "cancelling"
  /\ tasks' = [tasks EXCEPT ![t] = At("done")]
  /\ UNCHANGED <<connections, game_loop, conn_pc>>

\* A broadcast made by loop task t finds websocket w dead and calls
\* handle_disconnect(w) inside the loop task: if the task to cancel is t
\* itself, t cancels itself and then awaits itself; if it is another
\* task, t cancels it and awaits it.
loop_send_fails(t, w) ==
  /\ tasks[t].at = "running"
  /\ w \in connections
  /\ connections' = Removed(w)
  /\ IF MustCancel(w)
       THEN IF game_loop = t
              THEN tasks' = [tasks EXCEPT ![t] = At("self_await")]
              ELSE tasks' = [Cancelled(tasks, game_loop) EXCEPT
                               ![t] = [at |-> "awaiting", on |-> game_loop]]
       ELSE UNCHANGED tasks
  /\ UNCHANGED <<game_loop, conn_pc>>

\* The task that cancelled and awaited itself is resumed with
\* CancelledError at "await self.game_loop", where handle_disconnect
\* catches it: self.game_loop = None, and the loop goes on.
loop_self_resume(t) ==
  /\ tasks[t].at = "self_await"
  /\ game_loop' = 0
  /\ tasks' = [tasks EXCEPT ![t] = At("running")]
  /\ UNCHANGED <<connections, conn_pc>>

\* await self.game_loop returns in a loop task that awaited another one.
loop_await_resume(t) ==
  /\ tasks[t].at = "awaiting"
  /\ Done(tasks[t].on)
  /\ game_loop' = 0
  /\ tasks' = [tasks EXCEPT ![t] = At("running")]
  /\ UNCHANGED <<connections, conn_pc>>

Rest == <<engine, last_call, snapshot, locking, instance, current_pattern,
          state_lock, timer, loop_pc, loop_i, player_pc, pending, message>>

NextConn ==
  \/ \E w \in Sockets : connect_accept(w) /\ UNCHANGED Rest
  \/ \E w \in Sockets : connect_start_loop(w) /\ UNCHANGED Rest
  \/ \E w \in Sockets : endpoint_disconnect(w) /\ UNCHANGED Rest
  \/ \E w \in Sockets : endpoint_resume(w) /\ UNCHANGED Rest
  \/ \E t \in TaskIds : loop_cancelled(t) /\ UNCHANGED Rest
  \/ \E t \in TaskIds, w \in Sockets : loop_send_fails(t, w) /\ UNCHANGED Rest
  \/ \E t \in TaskIds : loop_self_resume(t) /\ UNCHANGED Rest
  \/ \E t \in TaskIds : loop_await_resume(t) /\ UNCHANGED Rest

SpecConn == InitConn /\ [][NextConn]_vars

(* ------------------------------------------------------------------ *)
(* Claims about the engine                                             *)
(* ------------------------------------------------------------------ *)

\* C1: add_player_point(x, y) on a running game, in bounds, on an empty
\* cell returns True, writes 2 to exactly that cell, adds 1 to
\* points_placed and changes nothing else.
C1_PlacementSucceeds ==
  [][\A x \in Xs, y \in Ys :
       (/\ ~game_over
        /\ InBounds(x, y)
        /\ grid[<<x, y>>] = 0
        /\ add_player_point(x, y))
       => /\ last_call' = Call("add_player_point", "True")
          /\ grid' = [p \in Pos |-> IF p = <<x, y>> THEN 2 ELSE grid[p]]
          /\ points_placed' = points_placed + 1
          /\ UNCHANGED <<last_grid, round_count, game_over, final_stats,
                         initial_red_count>>]_vars

C1_Witness ==
  /\ last_call = Call("add_player_point", "True")
  /\ points_placed >= 1
  /\ CountCells(grid, 2) >= 1

\* C2: add_player_point(x, y) with the game over, (x, y) out of bounds or
\* the cell not empty returns False and changes nothing; a placement that
\* succeeded adds exactly one blue cell and leaves its cell non-empty, so
\* the same call made again is one of the refused ones.
C2_PlacementRefused ==
  [][\A x \in Xs, y \in Ys :
       add_player_point(x, y)
       => /\ (game_over \/ ~InBounds(x, y) \/ grid[<<x, y>>] # 0)
               => /\ last_call' = Call("add_player_point", "False")
                  /\ UNCHANGED engine
          /\ (~(game_over \/ ~InBounds(x, y) \/ grid[<<x, y>>] # 0))
               => /\ CountCells(grid', 2) = CountCells(grid, 2) + 1
                  /\ grid'[<<x, y>>] # 0
                  /\ ~game_over']_vars

C2_Witness ==
  /\ last_call = Call("add_player_point", "False")
  /\ ~game_over
  /\ CountCells(grid, 2) = points_placed
  /\ points_placed >= 1

\* C3: once game_over is true it stays true, and every later call leaves
\* grid, last_grid, round_count, points_placed and final_stats as they
\* were; add_player_point returns False.
C3_OverIsTerminal ==
  [][game_over
       => /\ game_over'
          /\ UNCHANGED engine
          /\ (last_call'.op = "add_player_point"
                => last_call'.ret = "False")]_vars

C3_Witness ==
  /\ game_over
  /\ initial_red_count >= 1
  /\ last_call = Call("add_player_point", "False")

\* C4: final_stats is set exactly when game_over is true; it is set by
\* the update_state_tactical call that sets game_over, from the counters
\* of that round, and never changes afterwards.
C4_FinalStatsIffOver ==
  /\ [](game_over <=> final_stats # None)
  /\ [][/\ (final_stats # None => final_stats' = final_stats)
        /\ (~game_over /\ game_over'
              => /\ last_call'.op = "update_state_tactical"
                 /\ final_stats' # None
                 /\ final_stats'.total_rounds = round_count'
                 /\ final_stats'.points_placed = points_placed'
                 /\ final_stats'.initial_red_count = initial_red_count')]_vars

C4_Witness ==
  /\ game_over
  /\ final_stats # None
  /\ final_stats.total_rounds = 2
  /\ final_stats.points_placed = 5

\* C5: once a round has been committed, a grid without red cells comes
\* with game_over set.
C5_NoRedsMeansOver ==
  (round_count >= 1 /\ CountCells(grid, 1) = 0) => game_over

C5_Witness ==
  /\ round_count >= 1
  /\ initial_red_count >= 1
  /\ CountCells(grid, 1) = 0
  /\ game_over
  /\ last_call.op = "update_state_tactical"

\* A websocket task is inside the async with block of add_player_point.
PlayerInside == \E p \in Players : player_pc[p] = "broadcasting"

\* The loop task is inside the async with block of update_game.
RoundInside == loop_pc = "upd_broadcast"

\* C6: a placement and a round never overlap: no placement is inside its
\* locked block while update_game is inside its own, the lock names the one
\* task that is inside, every change of one game's engine state is exactly
\* one whole add_player_point or update_state_tactical call, a placement
\* step finds no round in progress and a round step finds no placement in
\* progress and keeps points_placed.
C6_PlacementAndRoundExclusive ==
  /\ [](~(PlayerInside /\ RoundInside))
  /\ [](\A p \in Players : player_pc[p] = "broadcasting" => state_lock = p)
  /\ [](RoundInside => state_lock = "loop")
  /\ [][(engine' # engine /\ instance' = instance) =>
          \/ /\ \E x \in Xs, y \in Ys :
                  /\ ~AddRefused(x, y)
                  /\ add_player_point(x, y)
             /\ ~RoundInside
             /\ state_lock = "free"
             /\ CountCells(grid', 2) = CountCells(grid, 2) + 1
          \/ /\ ~game_over
             /\ update_state_tactical
             /\ ~PlayerInside
             /\ state_lock = "free"
             /\ points_placed' = points_placed]_vars

C6_Witness ==
  /\ player_pc["p1"] = "waiting"
  /\ RoundInside
  /\ round_count >= 1
  /\ points_placed >= 1

C8_ResetSerialized ==
  [][instance' # instance =>
       /\ ~PlayerInside
       /\ state_lock \in {"free", "loop"}
       /\ \A p \in Players : player_pc'[p] = player_pc[p]
       /\ instance' = instance + 1
       /\ round_count' = 0
       /\ points_placed' = 0
       /\ ~game_over'
       /\ final_stats' = None
       /\ last_grid' = None
       /\ initial_red_count' = CountCells(grid', 1)
       /\ CountCells(grid', 2) = 0]_vars

C8_Witness ==
  /\ instance = 1
  /\ round_count = 0
  /\ points_placed = 0
  /\ ~game_over
  /\ final_stats = None
  /\ last_call.op = "initialize_obstacles"

\* C9: round_count and points_placed never decrease; round_count starts
\* at 0, grows by exactly 1 in every update_state_tactical made on a
\* running game and is changed by nothing else.
C9_MonotonicCounters ==
  /\ [](last_call.op = "initialize_obstacles"
          => round_count = 0 /\ points_placed = 0)
  /\ [][/\ round_count' >= round_count
        /\ points_placed' >= points_placed
        /\ (round_count' # round_count
              => /\ ~game_over
                 /\ last_call'.op = "update_state_tactical"
                 /\ round_count' = round_count + 1)
        /\ (~game_over /\ last_call'.op = "update_state_tactical"
              => round_count' = round_count + 1)]_vars

C9_Witness ==
  /\ round_count = 2
  /\ points_placed >= 1
  /\ game_over

\* C10: a pattern that decodes to no red cell is rejected, so that
\* initial_red_count is never 0 and no score is computed from a zero
\* initial_red_count.
C10_ZeroDefendersRejected ==
  /\ initial_red_count # 0
  /\ (final_stats # None => final_stats.initial_red_count # 0)

\* C11: initial_red_count is the number of red cells the decoder left, no
\* add_player_point or update_state_tactical step changes it, and the
\* initial_red_count of final_stats is that value, not the number of red
\* cells left on the grid.
C11_InitialCountImmutable ==
  /\ [](initial_red_count = Cardinality(Decode(current_pattern)))
  /\ [](round_count = 0 => initial_red_count = CountCells(grid, 1))
  /\ [][initial_red_count' = initial_red_count]_vars
  /\ [](final_stats # None =>
          final_stats.initial_red_count = initial_red_count)

C11_Witness ==
  /\ game_over
  /\ final_stats.initial_red_count = 1
  /\ CountCells(grid, 1) = 0
  /\ points_placed >= 1

\* A run-length expansion written out position by position, for C12.
RECURSIVE SumOf(_, _)
SumOf(f, S) ==
  IF S = {} THEN 0
  ELSE LET a == CHOOSE a \in S : TRUE
       IN f[a] + SumOf(f, S \ {a})

\* The index of the first "!", or one past the end.
RefStop(text) ==
  IF \E i \in 1 .. Len(text) : text[i] = "!"
    THEN CHOOSE i \in 1 .. Len(text) :
           text[i] = "!" /\ \A j \in 1 .. i - 1 : text[j] # "!"
    ELSE Len(text) + 1

\* The command characters read before the stop.
RefCommands(text) ==
  {i \in 1 .. RefStop(text) - 1 : text[i] \in {"b", "o", "$"}}

\* Where the digit run that ends just before position i starts.
RefRunStart(text, i) ==
  CHOOSE j \in 1 .. i :
    /\ \A k \in j .. i - 1 : text[k] \in Digits
    /\ j > 1 => text[j - 1] \notin Digits

\* The repeat count of the command at i: its digit run in base ten, or 1.
RefCount(text, i) ==
  LET j == RefRunStart(text, i)
  IN IF j = i THEN 1
     ELSE SumOf([k \in j .. i - 1 |-> DigitVal(text[k]) * 10 ^ (i - 1 - k)],
                j .. i - 1)

RefCounts(text) == [i \in RefCommands(text) |-> RefCount(text, i)]

\* The row of the cursor when the command at i is read.
RefY(text, i) ==
  SumOf(RefCounts(text), {j \in RefCommands(text) : j < i /\ text[j] = "$"})

\* The column: the counts of the commands since the last "$".
RefX(text, i) ==
  SumOf(RefCounts(text),
        {j \in RefCommands(text) :
           /\ j < i
           /\ \A k \in j .. i - 1 : text[k] # "$"})

RefCells(text) ==
  UNION {{<<RefX(text, i) + k, RefY(text, i)>> :
            k \in 0 .. RefCount(text, i) - 1} :
         i \in {j \in RefCommands(text) : text[j] = "o"}} \cap Pos

OverAlphabet(text) == \A i \in 1 .. Len(text) : text[i] \in Alphabet

\* C12: for every text over the alphabet and every width and height,
\* initialize_obstacles ends and
\* leaves red exactly the in-bounds cells of the run-length expansion of
\* the text, no other cell set, and initial_red_count their number.
C12_DecodeMatchesExpansion ==
  (last_call.op = "initialize_obstacles" /\ OverAlphabet(current_pattern)) =>
     /\ RedPositions(grid) = RefCells(current_pattern)
     /\ BluePositions(grid) = {}
     /\ initial_red_count = Cardinality(RefCells(current_pattern))

\* "b2o" on a grid 2 wide: the second cell of the run falls off the grid.
C12_Witness ==
  /\ last_call.op = "initialize_obstacles"
  /\ width = 2
  /\ height = 3
  /\ current_pattern = <<"b", "2", "o">>
  /\ RedPositions(grid) = {<<1, 0>>}

\* The text with the characters outside the alphabet taken out.
RECURSIVE Strip(_)
Strip(text) ==
  IF text = << >> THEN << >>
  ELSE IF Head(text) \in Foreign THEN Strip(Tail(text))
  ELSE <<Head(text)>> \o Strip(Tail(text))

\* C13: a character outside the alphabet is ignored: the red cells are
\* those of the text with every such character removed.
C13_ForeignIgnored ==
  last_call.op = "initialize_obstacles" =>
    RedPositions(grid) = Decode(Strip(current_pattern))

\* C14: with N = initial_red_count >= 1, attackers ready next to every red
\* cluster and no placement after the first round, the game is over once N
\* rounds have run.
C14_OverWithinNRounds ==
  (initial_red_count >= 1 /\ round_count >= initial_red_count) => game_over

\* Two enumeration orders of the red cells give every blue the same
\* nearest red.
SameTargets(g, ro1, ro2) ==
  \A b \in BluePositions(g) : NearestRed(b, ro1) = NearestRed(b, ro2)

\* C15 as stated: the grid a round leaves is the same for every order in
\* which the red and the blue positions are enumerated.
C15_OrderIndependent ==
  ~game_over =>
    \A red_order \in AllOrders(RedPositions(grid)),
       blue_order \in TwoOrders(BluePositions(grid)) :
      RoundGrid(grid, red_order, blue_order)
        = RoundGrid(grid, RowMajor(RedPositions(grid)),
                    RowMajor(BluePositions(grid)))

\* C15 amended: the grid a round leaves is a function of the grid and of
\* the nearest red each blue finds: the order of the blue positions never
\* changes it, and two orders of the red positions that break every tie
\* alike give the same grid.
C15_DeterministicGivenTargets ==
  ~game_over =>
    LET reds == RowMajor(RedPositions(grid))
        blues == RowMajor(BluePositions(grid))
        base == RoundGrid(grid, reds, blues)
    IN \A red_order \in AllOrders(RedPositions(grid)) :
         LET left == RoundGrid(grid, red_order, blues)
         IN /\ RoundGrid(grid, red_order, Reversed(blues)) = left
            /\ SameTargets(grid, red_order, reds) => left = base

\* A blue with two reds at the same least distance, two blues whose moves
\* end on one cell, and two red orders that leave different grids.
C15_Witness ==
  /\ ~game_over
  /\ \E b \in BluePositions(grid) :
       \E r1, r2 \in RedPositions(grid) :
         /\ r1 # r2
         /\ Dist(b, r1) = Dist(b, r2)
         /\ \A r \in RedPositions(grid) : Dist(b, r1) <= Dist(b, r)
  /\ \E red_order \in AllOrders(RedPositions(grid)) :
       RoundGrid(grid, red_order, RowMajor(BluePositions(grid)))
         # RoundGrid(grid, RowMajor(RedPositions(grid)),
                     RowMajor(BluePositions(grid)))
  /\ LET moves == CollectMoves(grid, RowMajor(BluePositions(grid)),
                               RowMajor(RedPositions(grid)), 1)
     IN \E i, j \in 1 .. Len(moves) : i # j /\ moves[i][2] = moves[j][2]

\* C16: get_changes_count() is 0 before the first round; after a round it
\* is the number of cells in which the grid the round started from and the
\* grid the round left differ, and it keeps that value through the calls
\* that follow the round, add_player_point among them.
C16_ChangesOfLastRound ==
  /\ [](round_count = 0 => get_changes_count(grid, last_grid) = 0)
  /\ [][round_count' = round_count + 1 =>
          get_changes_count(grid', last_grid')
            = Cardinality({p \in Pos : grid'[p] # grid[p]})]_vars
  /\ [][(round_count >= 1 /\ round_count' = round_count) =>
          get_changes_count(grid', last_grid')
            = get_changes_count(grid, last_grid)]_vars

\* C17: an array get_state returned keeps its contents through every later
\* add_player_point and update_state_tactical, and a write of the caller
\* into it leaves the engine's grid as it was.
C17_SnapshotDecoupled ==
  /\ [][(snapshot # None
           /\ (points_placed' # points_placed \/ round_count' # round_count))
          => snapshot'.cells = snapshot.cells]_vars
  /\ [][(snapshot # None /\ snapshot'.cells # snapshot.cells)
          => grid' = grid]_vars

\* A snapshot taken before a placement and a round, then written by the
\* caller: it differs from the grid and from what was returned.
C17_Witness ==
  /\ snapshot # None
  /\ snapshot.written
  /\ points_placed >= 1
  /\ round_count >= 1
  /\ CountCells(snapshot.cells, 2) = 0
  /\ CountCells(grid, 2) >= 1

\* C18: _count_clusters returns the number of maximal 8-connected regions
\* of the cells of the given type, 0 when there is none, and 2 for the
\* 3 x 3 grid whose red cells are (0,0), (1,0) and (2,2).
C18_CountsRegions ==
  last_call.op = "_count_clusters" =>
    LET cell_type == last_call.ret.cell_type
        clusters == last_call.ret.clusters
    IN /\ clusters = Cardinality(Regions(grid, cell_type))
       /\ CountCells(grid, cell_type) = 0 => clusters = 0
       /\ (/\ width = 3
           /\ height = 3
           /\ cell_type = 1
           /\ RedPositions(grid) = {<<0, 0>>, <<1, 0>>, <<2, 2>>})
            => clusters = 2

\* Two red cells that touch only at a corner, counted as one cluster next
\* to a third red cell apart from them.
C18_Witness ==
  /\ last_call.op = "_count_clusters"
  /\ last_call.ret = [cell_type |-> 1, clusters |-> 2]
  /\ width = 3
  /\ height = 3
  /\ RedPositions(grid) = {<<1, 0>>, <<0, 1>>, <<2, 2>>}

\* The five tiers from the lowest to the highest.
TierOf(title) ==
  CASE title = "Aspiring Strategist" -> 1
    [] title = "Tactical Operator" -> 2
    [] title = "Skilled Strategist" -> 3
    [] title = "Elite Commander" -> 4
    [] title = "Master Tactician" -> 5

\* C19: the rank title returned with a weighted score is the top tier from
\* 900 on, the second for 750..899, the third for 600..749, the fourth for
\* 450..599 and the lowest below 450, and no lower score has a higher tier.
C19_TierStepFunction ==
  last_call.op = "calculate_victory_ranking" =>
    LET score == last_call.ret.rank_info.score
        title == last_call.ret.rank_info.title
    IN /\ score \in 0 .. 1000
       /\ score >= 900 => title = "Master Tactician"
       /\ (score >= 750 /\ score <= 899) => title = "Elite Commander"
       /\ (score >= 600 /\ score <= 749) => title = "Skilled Strategist"
       /\ (score >= 450 /\ score <= 599) => title = "Tactical Operator"
       /\ score < 450 => title = "Aspiring Strategist"
       /\ \A lower \in 0 .. score :
            TierOf(RankTitle(lower)) <= TierOf(title)

\* A score on a tier's lower bound.
C19_Witness ==
  /\ last_call.op = "calculate_victory_ranking"
  /\ last_call.ret.rank_info = [score |-> 900, title |-> "Master Tactician"]

\* C20: with 10 initial defenders, 10 points placed and 5 rounds the point
\* efficiency and the speed rating are exactly 1.0, the click efficiency is
\* exp(-0.25) = 0.778800..., the weighted score is 956 and the tier is the top
\* one.
C20_WorkedExample ==
  (/\ last_call.op = "calculate_victory_ranking"
   /\ initial_red_count = 10
   /\ points_placed = 10
   /\ round_count = 5)
    => /\ last_call.ret.point_efficiency = Exact(Unit)
       /\ last_call.ret.speed_rating = Exact(Unit)
       /\ last_call.ret.click_efficiency = Exp(TRUE, 1, 4)
       /\ last_call.ret.click_efficiency.lo >= 778780
       /\ last_call.ret.click_efficiency.hi <= 778820
       /\ last_call.ret.rank_info = [score |-> 956, title |-> "Master Tactician"]

C20_Witness ==
  /\ last_call.op = "calculate_victory_ranking"
  /\ initial_red_count = 10
  /\ points_placed = 10
  /\ round_count = 5
  /\ last_call.ret.rank_info.score = 956

\* max(|dx|, |dy|)
Chebyshev(p, q) ==
  IF Abs(p[1] - q[1]) >= Abs(p[2] - q[2])
    THEN Abs(p[1] - q[1])
    ELSE Abs(p[2] - q[2])

\* Six times 1 + n1/2 + n2/3 for the attacker at a among the attackers of g.
RefStrength6(g, a) ==
  LET n1 == Cardinality({b \in Pos : g[b] = 2 /\ b # a /\ Dist(a, b) = 1})
      n2 == Cardinality({b \in Pos : g[b] = 2 /\ b # a /\ Dist(a, b) = 2})
  IN 6 + 3 * n1 + 2 * n2

\* The defenders of g within Chebyshev distance 2 of an attacker of g whose
\* strength is at least 3.
KillSet(g) ==
  {d \in Pos :
     /\ g[d] = 1
     /\ \E a \in Pos :
          /\ g[a] = 2
          /\ RefStrength6(g, a) >= 18
          /\ Chebyshev(a, d) <= 2}

\* A step that is one round of update_state_tactical.
RoundStep == round_count' = round_count + 1

\* C21: a round clears exactly the pre-round defenders within Chebyshev
\* distance 2 of a pre-round attacker of strength >= 3; every other defender
\* is still a defender after it.
C21_KillSetExact ==
  [][RoundStep =>
       RedPositions(grid') = RedPositions(grid) \ KillSet(grid)]_vars

\* After the first round on the wide board: two defenders in range were
\* cleared and the one out of range stands.
C21_Witness ==
  /\ round_count = 1
  /\ width = RunWidth
  /\ RedPositions(last_grid) = {<<0, 0>>, <<1, 0>>, <<2, 0>>}
  /\ RedPositions(grid) = {<<0, 0>>}

\* The defenders of g at offsets -2 .. 2 of the cell a.
InRange(g, a) == {d \in Pos : g[d] = 1 /\ Chebyshev(a, d) <= 2}

\* C22: the strength of an attacker is 1 + n1/2 + n2/3 over the attackers of
\* the pre-round grid, and it attacks exactly when that value is >= 3
\* (6 + 3 n1 + 2 n2 >= 18): a round clears every defender in range of such an
\* attacker, a strength of exactly 3 included, and no defender that has no
\* such attacker in range.
C22_StrengthExact ==
  /\ [](\A a \in BluePositions(grid) :
          calculate_blue_strength(a, BluePositions(grid))
            = RefStrength6(grid, a))
  /\ [][RoundStep =>
          /\ \A a \in BluePositions(grid) :
               RefStrength6(grid, a) >= 18
                 => InRange(grid, a) \cap RedPositions(grid') = {}
          /\ \A d \in RedPositions(grid) \ RedPositions(grid') :
               \E a \in BluePositions(grid) :
                 RefStrength6(grid, a) >= 18 /\ d \in InRange(grid, a)]_vars

\* A round in which the only attacker with defenders in range that reached
\* strength 3 had exactly 3, from two attackers at distance 1 and three at
\* distance 2, and cleared them.
C22_Witness ==
  /\ round_count = 1
  /\ \E a \in BluePositions(last_grid) :
       /\ Cardinality({b \in BluePositions(last_grid) : Dist(a, b) = 1}) = 2
       /\ Cardinality({b \in BluePositions(last_grid) : Dist(a, b) = 2}) = 3
       /\ InRange(last_grid, a) # {}
       /\ InRange(last_grid, a) \cap RedPositions(grid) = {}
  /\ \A b \in BluePositions(last_grid) : RefStrength6(last_grid, b) <= 18

\* The five offsets for an attacker at a and a target d, in the order
\* (sx,sy), (sx,0), (0,sy), (-sy,sx), (sy,-sx).
RefOffsets(a, d) ==
  LET sx == IF d[1] > a[1] THEN 1 ELSE IF d[1] < a[1] THEN -1 ELSE 0
      sy == IF d[2] > a[2] THEN 1 ELSE IF d[2] < a[2] THEN -1 ELSE 0
  IN << <<sx, sy>>, <<sx, 0>>, <<0, sy>>, <<0 - sy, sx>>, <<sy, 0 - sx>> >>

\* The cell the attacker at a proposes when its target is d: the first of
\* the five that is on the board and empty in g, or None.
RefProposal(g, a, d) ==
  LET cell(i) == <<a[1] + RefOffsets(a, d)[i][1],
                   a[2] + RefOffsets(a, d)[i][2]>>
      good(i) == cell(i) \in DOMAIN g /\ g[cell(i)] = 0
  IN IF \E i \in 1 .. 5 : good(i)
       THEN cell(CHOOSE i \in 1 .. 5 : good(i) /\ \A j \in 1 .. i - 1 : ~good(j))
       ELSE None

\* What the attacker at a may propose in g: one proposal for each defender
\* at the least Manhattan distance, None when there is no defender.
RefProposals(g, a) ==
  LET D == {d \in DOMAIN g : g[d] = 1}
      nearest == {d \in D : \A e \in D : Dist(a, d) <= Dist(a, e)}
  IN IF D = {} THEN {None}
     ELSE {RefProposal(g, a, d) : d \in nearest}

\* The destination collected for the attacker at a, None if there is none.
ProposalOf(moves, a) ==
  IF \E i \in 1 .. Len(moves) : moves[i][1] = a
    THEN moves[CHOOSE i \in 1 .. Len(moves) : moves[i][1] = a][2]
    ELSE None

\* The statement for the moves collected on a pre-round grid g.
ProposalsAsStated(g) ==
  \A red_order \in AllOrders(RedPositions(g)),
     blue_order \in TwoOrders(BluePositions(g)) :
    LET moves == CollectMoves(g, blue_order, red_order, 1)
    IN /\ \A i \in 1 .. Len(moves) :
            /\ g[moves[i][1]] = 2
            /\ moves[i][2] \in Pos
            /\ g[moves[i][2]] = 0
            /\ \A j \in 1 .. Len(moves) : moves[j][1] = moves[i][1] => j = i
       /\ \A a \in BluePositions(g) :
            ProposalOf(moves, a) \in RefProposals(g, a)

\* C23: each pre-round attacker proposes, for a defender at the least
\* Manhattan distance, the first of the five offsets that lands on the board
\* on a cell empty in the pre-round grid, and nothing when none does or when
\* there is no defender; after the round an attacker stands only where one
\* stood or on such a proposed cell.
C23_ProposalsFirstFree ==
  /\ [](last_grid # None => ProposalsAsStated(last_grid))
  /\ [][RoundStep =>
          \A p \in BluePositions(grid') :
            \/ grid[p] = 2
            \/ /\ grid[p] = 0
               /\ \E a \in BluePositions(grid) : p \in RefProposals(grid, a)]_vars

\* The attacker at (1,1) had the defender at (0,0) on its diagonal and took
\* the second offset.
C23_Witness ==
  /\ round_count = 1
  /\ RedPositions(last_grid) = {<<0, 0>>}
  /\ BluePositions(last_grid) = {<<1, 1>>}
  /\ BluePositions(grid) = {<<0, 1>>}

\* C24: when two collected moves have the same destination, the one collected
\* first takes it and the later one is not applied: after the round the
\* later attacker still stands on its source cell.
C24_EarlierHasPriority ==
  [][RoundStep =>
       \A red_order \in AllOrders(RedPositions(grid)),
          blue_order \in TwoOrders(BluePositions(grid)) :
         grid' = RoundGrid(grid, red_order, blue_order) =>
           LET moves == CollectMoves(grid, blue_order, red_order, 1)
           IN \A i, j \in 1 .. Len(moves) :
                (i < j /\ moves[i][2] = moves[j][2])
                  => /\ grid'[moves[i][2]] = 2
                     /\ grid'[moves[j][1]] = 2]_vars

\* new_grid when the i-th collected move is about to be applied.
GridBefore(g, moves, i) == ApplyMoves(g, SubSeq(moves, 1, i - 1), 1)

\* C25: when a collected move is applied its source cell still holds an
\* attacker in the working grid, for every pre-round grid a round ran on and
\* every enumeration order; the branch for a source that is no longer an
\* attacker is never taken.
C25_SourceStillAttacker ==
  last_grid # None =>
    \A red_order \in AllOrders(RedPositions(last_grid)),
       blue_order \in TwoOrders(BluePositions(last_grid)) :
      LET moves == CollectMoves(last_grid, blue_order, red_order, 1)
      IN \A i \in 1 .. Len(moves) :
           GridBefore(last_grid, moves, i)[moves[i][1]] = 2

\* A round whose moves met on one cell: four attackers before it, fewer
\* after it.
C25_Witness ==
  /\ round_count = 1
  /\ Cardinality(BluePositions(last_grid)) = 4
  /\ Cardinality(BluePositions(grid)) < 4

\* C26: the set of defender cells only shrinks.  No step adds a defender
\* cell, a placement leaves the set as it is, and a defender cell is lost
\* only in a round, to the attack (it is in the kill set and is empty
\* afterwards).
C26_DefendersOnlyShrink ==
  [][/\ RedPositions(grid') \subseteq RedPositions(grid)
     /\ points_placed' # points_placed
          => RedPositions(grid') = RedPositions(grid)
     /\ RedPositions(grid') # RedPositions(grid)
          => /\ RoundStep
             /\ \A d \in RedPositions(grid) \ RedPositions(grid') :
                  d \in KillSet(grid) /\ grid'[d] = 0]_vars

\* Placements were made around the defender and a round cleared it.
C26_Witness ==
  /\ last_grid # None
  /\ RedPositions(last_grid) = {<<0, 0>>}
  /\ RedPositions(grid) = {}
  /\ points_placed = MaxPoints
  /\ BluePositions(grid) # {}

(* ------------------------------------------------------------------ *)
(* Claims about the locks and the tasks                                *)
(* ------------------------------------------------------------------ *)
\* C27: an engine method is inside exactly when GameState.lock is held:
\* the lock is held by the method from its entry to its return, on every
\* return path, and it is free whenever no method is being called.
C27_LockHeldThroughout ==
  IF engine_pc = "idle" THEN engine_lock = "free"
                        ELSE engine_lock = engine_pc

\* C27, the part the locked blocks do keep: the lock is only ever held by
\* the method that is inside, and a return always leaves it free.
C27_ReleasedOnReturn ==
  /\ engine_lock # "free" => engine_lock = engine_pc
  /\ engine_pc = "idle" => engine_lock = "free"

\* A round that ran to game over with the lock never taken by it.
C27_Witness ==
  /\ engine_pc = "idle"
  /\ game_over
  /\ last_call = Call("update_state_tactical", "None")

\* The engine as one whole round leaves it: last_grid is the grid the
\* round read, grid is what the round makes of it, and the win check has
\* been made on the result.
RoundComplete ==
  /\ last_grid # None
  /\ round_count >= 1
  /\ \E red_order \in AllOrders(RedPositions(last_grid)),
        blue_order \in TwoOrders(BluePositions(last_grid)) :
       grid = RoundGrid(last_grid, red_order, blue_order)
  /\ game_over <=> RedPositions(grid) = {}
  /\ final_stats # None <=> game_over

RoundFields == <<grid, last_grid, round_count, points_placed, game_over,
                 final_stats, initial_red_count>>

\* C28: when update_game is left by a timeout, the round was not started
\* (left while waiting for state_lock: the engine is as it was and the
\* loop task holds no lock) or was applied whole (left during the
\* broadcast: grid replaced, round_count one more, win check made, and
\* state_lock released); the loop task holds state_lock only inside
\* the blocks it has not left.
C28_TimeoutLeavesConsistent ==
  /\ [](state_lock = "loop" <=> loop_pc \in {"upd_broadcast", "reset_broadcast"})
  /\ [](loop_pc = "upd_broadcast" => RoundComplete)
  /\ [][(loop_pc # "upd_broadcast" /\ loop_pc' = "upd_broadcast")
          => /\ last_grid' = grid
             /\ round_count' = round_count + 1
             /\ points_placed' = points_placed]_vars
  /\ [][(loop_pc = "upd_wait" /\ loop_pc' \notin {"upd_wait", "upd_broadcast"})
          => /\ UNCHANGED RoundFields
             /\ state_lock' = state_lock
             /\ state_lock' # "loop"]_vars
  /\ [][(loop_pc = "upd_broadcast" /\ loop_pc' # "upd_broadcast")
          => /\ state_lock' = "free"
             /\ \/ UNCHANGED RoundFields
                \/ /\ game_over
                   /\ ~game_over'
                   /\ round_count' = 0
                   /\ last_grid' = None]_vars

\* update_game has timed out waiting for the lock a player still holds,
\* after an earlier round: the loop is back at its countdown.
C28_Witness ==
  /\ loop_pc = "countdown"
  /\ loop_i = TimerStart
  /\ state_lock = "p1"
  /\ player_pc["p1"] = "broadcasting"
  /\ round_count = 1
  /\ last_grid # None
  /\ ~game_over

\* The aggregate is a fresh GameState.
Fresh ==
  /\ ~game_over
  /\ round_count = 0
  /\ points_placed = 0
  /\ last_grid = None
  /\ final_stats = None

\* C29: with the loop task running, a game that is over is eventually
\* replaced by a fresh GameState (game_over false, round_count 0,
\* points_placed 0), as long as the model's bound on resets allows one.
C29_OverLeadsToFresh ==
  (game_over /\ instance < MaxResets) ~> (Fresh /\ instance > 0)

\* The loop has replaced an ended game without a broadcast: the latest
\* message is still the one that announced the end.
C29_Witness ==
  /\ instance = 1
  /\ Fresh
  /\ loop_pc = "countdown"
  /\ message # None
  /\ message.game_over

\* The loop tasks that have been created and have not ended.
ActiveLoops == {t \in TaskIds : tasks[t].at \notin {"none", "done"}}

\* No connect or handle_disconnect call is under way, and no loop task
\* is in the middle of being cancelled.
Quiescent ==
  /\ \A w \in Sockets : conn_pc[w].at \in {"closed", "open"}
  /\ \A t \in TaskIds : tasks[t].at \in {"none", "running", "done"}

\* C30: once the connect and handle_disconnect calls made so far have
\* returned, at most one loop task is active, one is active if the
\* connection set is non-empty, and none is active if it is empty.
C30_OneLoopIffConnected ==
  Quiescent =>
    /\ Cardinality(ActiveLoops) <= 1
    /\ connections # {} => ActiveLoops # {}
    /\ connections = {} => ActiveLoops = {}

\* C30 for the sends of the loop task itself only: a loop task that found
\* its last websocket dead is no longer running once the call returned.
C30_SelfDisconnectStops ==
  [][\A t \in TaskIds :
       (tasks[t].at = "self_await" /\ tasks'[t].at # "self_await")
         => tasks'[t].at \in {"cancelling", "done"}]_vars

(* ------------------------------------------------------------------ *)
(* Claims about the number of attackers                                *)
(* ------------------------------------------------------------------ *)
BlueCount(g) == Cardinality(BluePositions(g))

\* C31: a round conserves the attackers: the number of 2 cells after the
\* round equals the number before it, also when two attackers propose
\* the same destination.
C31_RoundConservesAttackers ==
  [][RoundStep => BlueCount(grid') = BlueCount(grid)]_vars

\* C31, what the code does keep: a round never adds an attacker.
C31_RoundAddsNoAttacker ==
  [][RoundStep => BlueCount(grid') <= BlueCount(grid)]_vars

\* C32: the number of 2 cells is at most points_placed in every state;
\* it grows only in an add_player_point step that returned True, by one,
\* and never in a round.
C32_AttackersAtMostPlaced ==
  /\ [](BlueCount(grid) <= points_placed)
  /\ [][BlueCount(grid') > BlueCount(grid)
          => /\ last_call' = Call("add_player_point", "True")
             /\ points_placed' = points_placed + 1
             /\ BlueCount(grid') = BlueCount(grid) + 1
             /\ round_count' = round_count]_vars

\* A round has moved attackers, and every point placed is on the grid.
C32_Witness ==
  /\ round_count >= 1
  /\ points_placed >= 2
  /\ BlueCount(grid) = points_placed
  /\ BluePositions(grid) # BluePositions(last_grid)

\* C33: a round whose pre-round grid holds fewer than 5 attackers removes
\* no defender, and a game that started with at least one defender is
\* over only with points_placed >= 5.
C33_FewerThanFiveRemoveNone ==
  /\ [][(RoundStep /\ BlueCount(grid) < 5)
          => RedPositions(grid') = RedPositions(grid)]_vars
  /\ []((game_over /\ initial_red_count >= 1) => points_placed >= 5)

\* A round ran with 4 attackers, three of them next to the fourth, and
\* every defender is still there.
C33_Witness ==
  /\ round_count = 1
  /\ BlueCount(last_grid) = 4
  /\ \E b \in BluePositions(last_grid) :
       calculate_blue_strength(b, BluePositions(last_grid)) = 15
  /\ RedPositions(grid) = RedPositions(last_grid)
  /\ RedPositions(grid) # {}


====
